---- MODULE Spec2Model ----
(***************************************************************************)
(* Multi-source financial-data retrieval: the FinancialDataRetriever       *)
(* orchestrator, its cache in the financial_cache table and the source     *)
(* adapters it calls.  Strings are modelled as sequences of tokens, time   *)
(* as an integer number of milliseconds.                                   *)
(***************************************************************************)
EXTENDS Integers, Sequences, FiniteSets, TLC

(***************************************************************************)
(* Bounds of the model and constants of the program                        *)
(***************************************************************************)
MaxRequests == 2

DefaultTimeout == 30000
TTL == 86400000
BackoffBase == 1000
SerpQueryDelay == 1000

\* values of options.timeout: the callers of this repository pass none, so
\* that the default applies
TimeoutOptions == {DefaultTimeout}

\* latency of one HTTP exchange of an adapter call
Latencies == {50, 4100}

\* time between the return of one call and the next call: exactly the TTL,
\* and one millisecond more
Gaps == {TTL, TTL + 1}

(***************************************************************************)
(* Strings                                                                 *)
(***************************************************************************)
Schemes == {"https://", "http://"}

Lower(tok) ==
    CASE tok = "Test" -> "test"
      [] tok = "Company" -> "company"
      [] tok = "Acme" -> "acme"
      [] OTHER -> tok

LowerSeq(s) == [i \in 1..Len(s) |-> Lower(s[i])]

\* String.prototype.split(sep)[0]
RECURSIVE FirstPart(_, _)
FirstPart(s, sep) ==
    IF s = <<>> \/ Head(s) = sep THEN <<>>
    ELSE <<Head(s)>> \o FirstPart(Tail(s), sep)

\* String.prototype.includes
Includes(hay, needle) ==
    \E i \in 0..(Len(hay) - Len(needle)) :
        \A j \in 1..Len(needle) : hay[i + j] = needle[j]

\* the inputs callers pass to getFinancialData
Inputs ==
    { <<"Test", " ", "Company">>,
      <<"https://", "www.", "acme", ".", "com">>,
      <<"acme">> }

(***************************************************************************)
(* Input classification                                                    *)
(***************************************************************************)
\* input.startsWith("http") ? input : `https://${input}`
WithScheme(input) ==
    IF input # <<>> /\ Head(input) \in Schemes THEN input ELSE <<"https://">> \o input

\* new URL(s): the host is what follows the scheme up to the first "/";
\* the parse fails on an empty host or a host with a space
UrlHost(s) == FirstPart(Tail(s), "/")

UrlParses(s) ==
    /\ UrlHost(s) # <<>>
    /\ \A i \in 1..Len(UrlHost(s)) : UrlHost(s)[i] \notin ({" "} \cup Schemes)

\* mutant: every input is taken for a URL
isValidUrl_always(input) == TRUE

isValidUrl(input) == UrlParses(WithScheme(input))

StripWww(s) == IF s # <<>> /\ Head(s) = "www." THEN Tail(s) ELSE s

StripScheme(s) == IF s # <<>> /\ Head(s) \in Schemes THEN Tail(s) ELSE s

extractDomain(url) ==
    IF UrlParses(WithScheme(url))
    THEN StripWww(LowerSeq(UrlHost(WithScheme(url))))
    ELSE FirstPart(StripWww(StripScheme(url)), "/")

extractCompanyNameFromUrl(url) ==
    LET label == FirstPart(extractDomain(url), ".")
    IN  [i \in 1..Len(label) |-> IF label[i] \in {"-", "_"} THEN " " ELSE label[i]]

(***************************************************************************)
(* Source adapters.  An adapter call returns                               *)
(*   [kind, financialData, source, domain, fetches, delays]                *)
(* where kind is "record", "null" or "throw", fetches counts the HTTP      *)
(* requests the call issued and delays the fixed waits it made.            *)
(***************************************************************************)
Returned(kind, data, source, dom, fetches, delays) ==
    [kind |-> kind, financialData |-> data, source |-> source, domain |-> dom,
     fetches |-> fetches, delays |-> delays]

NullReturn(fetches, delays) == Returned("null", {}, "", <<>>, fetches, delays)

ThrowReturn(fetches, delays) == Returned("throw", {}, "", <<>>, fetches, delays)

\* ---- generic web-scrape adapter ----
ScrapeTargets == <<"Crunchbase", "Company Website", "LinkedIn", "PitchBook">>

\* what one target yields: "record" is a 2xx page with at least one field
\* extracted, "none" a 2xx page with no field, "404" a non-2xx answer and
\* "neterr" a network error or an abort (each scrape function returns null
\* for the last three)
ScrapeResponses == {"record", "none", "404", "neterr"}

\* the answers of the four targets during one call
ScrapeScripts ==
    { [i \in 1..4 |-> IF i = k THEN "record" ELSE "none"] : k \in 0..4 }

RECURSIVE ScrapeFrom(_, _, _, _)
ScrapeFrom(i, dom, resps, fetches) ==
    IF i > Len(ScrapeTargets) THEN NullReturn(fetches, 0)
    ELSE IF ScrapeTargets[i] = "Company Website" /\ dom = <<>>
         THEN ScrapeFrom(i + 1, dom, resps, fetches)
    ELSE IF resps[i] = "record"
         THEN Returned("record", {"totalFunding"}, ScrapeTargets[i], <<>>, fetches + 1, 0)
    ELSE ScrapeFrom(i + 1, dom, resps, fetches + 1)

\* mutant: the company home page is requested whatever the domain
scrapeFinancialData_ignoresDomain(dom, resps) == ScrapeFrom(1, <<"acme", ".", "com">>, resps, 0)

scrapeFinancialData(dom, resps) == ScrapeFrom(1, dom, resps, 0)

\* ---- people/company-enrichment adapter ----
PdlResponses == {"200-data", "200-empty", "404", "429", "401", "500", "neterr"}

\* mutant: a response without any field is returned as a record
PdlTry_emptyRecord(resp) ==
    CASE resp = "404" -> NullReturn(1, 0)
      [] resp \in {"429", "401", "500", "neterr"} -> ThrowReturn(1, 0)
      [] resp = "200-data" ->
            Returned("record", {"employeeCount"}, "People Data Labs", <<>>, 1, 0)
      [] OTHER -> Returned("record", {}, "People Data Labs", <<>>, 1, 0)

\* the body of the try block of getCompanyData
PdlTry(resp) ==
    CASE resp = "404" -> NullReturn(1, 0)
      [] resp \in {"429", "401", "500", "neterr"} -> ThrowReturn(1, 0)
      [] resp = "200-data" ->
            Returned("record", {"employeeCount"}, "People Data Labs", <<>>, 1, 0)
      [] OTHER -> NullReturn(1, 0)

getCompanyData(key, resp) ==
    IF ~key THEN NullReturn(0, 0)
    ELSE IF PdlTry(resp).kind = "throw" THEN NullReturn(1, 0)
    ELSE PdlTry(resp)

\* ---- search-engine-results adapter ----
SerpResponses == {"200-data", "200-empty", "429"}

SerpQueries == 5

\* the answers to the queries of one call
SerpScripts ==
    { [i \in 1..SerpQueries |-> r] : r \in SerpResponses }
    \cup { [i \in 1..SerpQueries |->
              IF i = 1 THEN "200-empty" ELSE IF i = 2 THEN "429" ELSE "200-data"] }

searchAndExtract(resp) ==
    CASE resp = "200-data" -> Returned("record", {"foundedYear"}, "SerpAPI", <<>>, 1, 0)
      [] resp = "200-empty" -> NullReturn(1, 0)
      [] OTHER -> ThrowReturn(1, 0)

RECURSIVE SerpFrom(_, _, _, _)
SerpFrom(i, resps, fetches, delays) ==
    IF i > SerpQueries THEN NullReturn(fetches, delays)
    ELSE LET r == searchAndExtract(resps[i])
         IN  CASE r.kind = "record" ->
                    Returned("record", r.financialData, r.source, <<>>, fetches + 1, delays)
               [] r.kind = "null" -> SerpFrom(i + 1, resps, fetches + 1, delays + 1)
               [] OTHER -> SerpFrom(i + 1, resps, fetches + 1, delays)

\* mutant: the API key is not looked at
serpGetFinancialData_noKeyCheck(key, resps) == SerpFrom(1, resps, 0, 0)

serpGetFinancialData(key, resps) ==
    IF ~key THEN NullReturn(0, 0) ELSE SerpFrom(1, resps, 0, 0)

\* ---- domain-enrichment adapter ----
ClearbitResponses == {"200-domain", "200-nodomain", "404", "429", "neterr"}

ClearbitDomain == <<"testco", ".", "com">>

enrichCompany(key, resp) ==
    IF ~key THEN NullReturn(0, 0)
    ELSE CASE resp = "200-domain" -> Returned("record", {}, "", ClearbitDomain, 1, 0)
           [] resp = "200-nodomain" -> Returned("record", {}, "", <<>>, 1, 0)
           [] OTHER -> NullReturn(1, 0)

\* how long a call that issued these requests and waits took
Duration(ret, lat) == ret.fetches * lat + ret.delays * SerpQueryDelay

(***************************************************************************)
(* Results and error messages                                              *)
(***************************************************************************)
\* an Error's message: a text and, where the text embeds one, a number
Msg(text, ms) == [text |-> text, ms |-> ms]

NoMsg == Msg("", 0)

TimeoutMsg(ms) == Msg("Operation timed out after Nms", ms)

NoError == [message |-> NoMsg, source |-> "", details |-> NoMsg]

\* a FinancialDataResult: present is the set of its defined properties
EmptyResult ==
    [present |-> {}, success |-> FALSE, companyName |-> <<>>, domain |-> <<>>,
     financialData |-> {}, source |-> "", retrievalTimestamp |-> 0,
     cached |-> FALSE, error |-> NoError]

SuccessResult(name, dom, ret, t) ==
    [EmptyResult EXCEPT
        !.present = {"success", "companyName", "domain", "financialData", "source",
                     "retrievalTimestamp"},
        !.success = TRUE, !.companyName = name, !.domain = dom,
        !.financialData = ret.financialData, !.source = ret.source,
        !.retrievalTimestamp = t]

\* mutant: the last error is dropped
ErrorMessage_default(last) == Msg("All data sources failed", 0)

\* lastError?.message || "All data sources failed"
ErrorMessage(last) ==
    IF last = {} THEN Msg("All data sources failed", 0) ELSE CHOOSE m \in last : TRUE

\* mutant: the failure result carries no error
FailureResult_noError(name, dom, last, t) ==
    [EmptyResult EXCEPT
        !.present = {"success", "companyName", "domain", "retrievalTimestamp"},
        !.success = FALSE, !.companyName = name, !.domain = dom,
        !.retrievalTimestamp = t]

FailureResult(name, dom, last, t) ==
    [EmptyResult EXCEPT
        !.present = {"success", "companyName", "domain", "error", "retrievalTimestamp"},
        !.success = FALSE, !.companyName = name, !.domain = dom,
        !.error = [message |-> Msg("Failed to retrieve financial data from all sources", 0),
                   source |-> "All Sources",
                   details |-> ErrorMessage(last)],
        !.retrievalTimestamp = t]

(***************************************************************************)
(* The cache: the financial_cache table                                    *)
(***************************************************************************)
\* what the storage layer does with one query
StorageOutcomes == {"ok", "error", "throw"}

\* company_name.ilike.%name%
ILike(value, name) == Includes(LowerSeq(value), LowerSeq(name))

\* mutant: the name and the domain must both match
Selected_both(rows, name, dom, t) ==
    { r \in rows : /\ ILike(r.company_name, name) /\ r.domain = dom
                   /\ r.created_at >= t - TTL }

\* mutant: no TTL filter
Selected_anyAge(rows, name, dom, t) ==
    { r \in rows : ILike(r.company_name, name) \/ r.domain = dom }

\* .or(company_name.ilike.%name%,domain.eq.domain).gte(created_at, now - 24h)
Selected(rows, name, dom, t) ==
    { r \in rows : /\ ILike(r.company_name, name) \/ r.domain = dom
                   /\ r.created_at >= t - TTL }

\* .order(created_at, descending).limit(1)
Latest(rows) == { r \in rows : \A q \in rows : q.created_at <= r.created_at }

CachedResult(row) ==
    [EmptyResult EXCEPT
        !.present = {"success", "companyName", "domain", "financialData", "source",
                     "retrievalTimestamp", "cached"},
        !.success = TRUE, !.companyName = row.company_name, !.domain = row.domain,
        !.financialData = row.financial_data, !.source = row.source,
        !.retrievalTimestamp = row.created_at, !.cached = TRUE]

\* mutant: a storage failure becomes the result of the request
getCachedData_failsRequest(rows, name, dom, t, outcome) ==
    IF outcome # "ok" THEN {{FailureResult(name, dom, {}, t)}}
    ELSE IF Selected(rows, name, dom, t) = {} THEN {{}}
    ELSE { {CachedResult(r)} : r \in Latest(Selected(rows, name, dom, t)) }

\* the results getCachedData can resolve to; {} stands for null
getCachedData(rows, name, dom, t, outcome) ==
    IF outcome # "ok" THEN {{}}
    ELSE IF Selected(rows, name, dom, t) = {} THEN {{}}
    ELSE { {CachedResult(r)} : r \in Latest(Selected(rows, name, dom, t)) }

NextId(rows) == Cardinality(rows) + 1

\* the table after cacheResult(result)
cacheResult(rows, result, t, outcome) ==
    IF ~result.success \/ "financialData" \notin result.present THEN rows
    ELSE IF outcome # "ok" THEN rows
    ELSE rows \cup { [id |-> NextId(rows), company_name |-> result.companyName,
                      domain |-> result.domain, financial_data |-> result.financialData,
                      source |-> result.source, created_at |-> t] }

(***************************************************************************)
(* The orchestrator: FinancialDataRetriever.getFinancialData               *)
(***************************************************************************)
Sources == {"clearbit", "web", "pdl", "serp"}

\* mutant: the enrichment adapter is tried before the scraper
DataSources_reordered == <<"pdl", "web", "serp">>

\* the dataSources array of getFinancialData
DataSources == <<"web", "pdl", "serp">>

VARIABLES
    probe,           \* the last direct call of a helper function: its arguments and value
    apiKey,          \* which clients were constructed with an API key
    store,           \* the rows of financial_cache
    now,             \* the clock: ms since the previous call returned
    nreq,            \* calls of getFinancialData that have returned
    pc,              \* where the running call stands
    req,             \* its arguments: companyInput, forceRefresh, timeout
    startTime, companyName, domain, resolvedDomain, index, lastError, result,
    pending,         \* the adapter call the orchestrator is awaiting
    run,             \* the network activity of each adapter during this call
    attempts,        \* the attempts of this call, in order
    lookup,          \* what the cache query of this call met ("none": no query)
    resolution,      \* the domain-resolution step of this call
    wrote,           \* whether this call stored a row
    returned,        \* what the call resolved to ({} while it runs)
    prev             \* the previous call: its input, its outcome, whether it stored

vars == <<probe, apiKey, store, now, nreq, pc, req, startTime, companyName, domain,
          resolvedDomain, index, lastError, result, pending, run, attempts,
          lookup, resolution, wrote, returned, prev>>

NoReq == [companyInput |-> <<>>, forceRefresh |-> FALSE, timeout |-> DefaultTimeout]

NoPending ==
    [source |-> "", domain |-> <<>>, script |-> <<>>, ret |-> NullReturn(0, 0),
     hangs |-> FALSE, duration |-> 0]

\* one awaited adapter call as the orchestrator saw it: outcome is "record",
\* "null" or "error", reported the source name of the record, error the
\* message of the error
Attempt(source, from, to, outcome, reported, error) ==
    [source |-> source, startedAt |-> from, endedAt |-> to, outcome |-> outcome,
     reported |-> reported, error |-> error]

NoAttempt == Attempt("", 0, 0, "none", "", NoMsg)

Idle ==
    [net |-> FALSE, from |-> 0, hangs |-> FALSE, until |-> 0, domain |-> <<>>,
     found |-> <<>>, yields |-> ""]

NoRun == [s \in Sources |-> Idle]

\* an adapter call as the environment lets it run: it was passed dom, the
\* source answers its requests with script, and it returns ret after
\* duration ms, or never settles
Call(source, dom, script, ret, hangs, duration) ==
    [source |-> source, domain |-> dom, script |-> script, ret |-> ret,
     hangs |-> hangs, duration |-> duration]

\* the network activity of a call started at t, the domain it was passed,
\* and the domain and the source name of the record it comes back with when
\* it settles
Activity(p, t) ==
    [net |-> p.hangs \/ p.ret.fetches > 0, from |-> t, hangs |-> p.hangs,
     until |-> t + p.duration, domain |-> p.domain, found |-> p.ret.domain,
     yields |-> IF p.hangs THEN "" ELSE p.ret.source]

\* whether adapter s has a request in flight at time t
InFlight(s, t) ==
    /\ run[s].net
    /\ run[s].from <= t
    /\ run[s].hangs \/ t < run[s].until

\* mutant: the timer never fires
withTimeout_noTimer(p, timeoutMs) ==
    { [kind |-> "value", at |-> p.duration, error |-> NoMsg] :
          x \in IF ~p.hangs THEN {1} ELSE {} }

\* mutant: a value that arrives after the timer is still taken
withTimeout_lateValue(p, timeoutMs) ==
    { [kind |-> "value", at |-> p.duration, error |-> NoMsg] :
          x \in IF ~p.hangs /\ p.ret.kind # "throw" THEN {1} ELSE {} }
    \cup
    { [kind |-> "error", at |-> timeoutMs, error |-> TimeoutMsg(timeoutMs)] :
          x \in IF p.hangs \/ p.duration >= timeoutMs THEN {1} ELSE {} }

\* withTimeout(promise, timeoutMs): how the race of the promise against the
\* timer can settle, and when
withTimeout(p, timeoutMs) ==
    { [kind |-> "value", at |-> p.duration, error |-> NoMsg] :
          x \in IF ~p.hangs /\ p.duration <= timeoutMs /\ p.ret.kind # "throw"
                THEN {1} ELSE {} }
    \cup
    { [kind |-> "error", at |-> p.duration, error |-> Msg("adapter error", 0)] :
          x \in IF ~p.hangs /\ p.duration <= timeoutMs /\ p.ret.kind = "throw"
                THEN {1} ELSE {} }
    \cup
    { [kind |-> "error", at |-> timeoutMs, error |-> TimeoutMsg(timeoutMs)] :
          x \in IF p.hangs \/ p.duration >= timeoutMs THEN {1} ELSE {} }

\* withTimeout(enrichCompany(companyName), timeout / 4)
ResolveTimeout(timeout) == timeout \div 4

\* withTimeout(dataSource(), timeout / 3)
AttemptTimeout(timeout) == timeout \div 3

\* mutant: no delay
Backoff_none(i) == 0

\* mutant: the delay does not grow
Backoff_constant(i) == BackoffBase

\* delay(Math.pow(2, index) * 1000)
Backoff(i) == (2 ^ i) * BackoffBase

\* the calls of the adapters the environment can produce
ClearbitCalls(key) ==
    { Call("clearbit", <<>>, <<resp>>, enrichCompany(key, resp), FALSE,
           Duration(enrichCompany(key, resp), lat)) :
          resp \in ClearbitResponses, lat \in Latencies }
    \cup (IF key THEN {Call("clearbit", <<>>, <<>>, NullReturn(1, 0), TRUE, 0)} ELSE {})

WebCalls(dom) ==
    { Call("web", dom, resps, scrapeFinancialData(dom, resps), FALSE,
           Duration(scrapeFinancialData(dom, resps), lat)) :
          resps \in ScrapeScripts, lat \in Latencies }
    \cup {Call("web", dom, <<>>, NullReturn(1, 0), TRUE, 0)}

PdlCalls(key, dom) ==
    { Call("pdl", dom, <<resp>>, getCompanyData(key, resp), FALSE,
           Duration(getCompanyData(key, resp), lat)) :
          resp \in PdlResponses, lat \in Latencies }
    \cup (IF key THEN {Call("pdl", dom, <<>>, NullReturn(1, 0), TRUE, 0)} ELSE {})

SerpCalls(key, dom) ==
    { Call("serp", dom, resps, serpGetFinancialData(key, resps), FALSE,
           Duration(serpGetFinancialData(key, resps), lat)) :
          resps \in SerpScripts, lat \in Latencies }
    \cup (IF key THEN {Call("serp", dom, <<>>, NullReturn(1, 0), TRUE, 0)} ELSE {})

\* dataSources[i]()
SourceCalls(i, dom) ==
    CASE DataSources[i + 1] = "web" -> WebCalls(dom)
      [] DataSources[i + 1] = "pdl" -> PdlCalls(apiKey["pdl"], dom)
      [] OTHER -> SerpCalls(apiKey["serp"], dom)

\* the environments the clients are constructed in: every API key set, or none
NoProbe == [op |-> "none"]

KeyConfigs == { [c \in {"clearbit", "pdl", "serp"} |-> b] : b \in BOOLEAN }

Init ==
    /\ probe = NoProbe
    /\ apiKey \in KeyConfigs
    /\ store = {}
    /\ now = 0
    /\ nreq = 0
    /\ pc = "idle"
    /\ req = NoReq
    /\ startTime = 0
    /\ companyName = <<>>
    /\ domain = <<>>
    /\ resolvedDomain = <<>>
    /\ index = 0
    /\ lastError = {}
    /\ result = {}
    /\ pending = NoPending
    /\ run = NoRun
    /\ attempts = <<>>
    /\ lookup = "none"
    /\ resolution = NoAttempt
    /\ wrote = FALSE
    /\ returned = {}
    /\ prev = {}

\* mutant: forceRefresh is ignored
Invoke_ignoresForce(input, force, timeout, gap) ==
    /\ pc = "idle"
    /\ nreq < MaxRequests
    /\ now' = now + gap
    /\ req' = [companyInput |-> input, forceRefresh |-> force, timeout |-> timeout]
    /\ startTime' = now + gap
    /\ companyName' = IF isValidUrl(input) THEN extractCompanyNameFromUrl(input) ELSE input
    /\ domain' = IF isValidUrl(input) THEN extractDomain(input) ELSE <<>>
    /\ pc' = "cache"
    /\ UNCHANGED <<probe, apiKey, store, nreq, resolvedDomain, index, lastError, result,
                   pending, run, attempts, lookup, resolution, wrote, returned, prev>>

\* getFinancialData(companyInput, {forceRefresh, timeout}) is called, gap ms
\* after the previous call returned: input classification
Invoke(input, force, timeout, gap) ==
    /\ pc = "idle"
    /\ nreq < MaxRequests
    /\ now' = now + gap
    /\ req' = [companyInput |-> input, forceRefresh |-> force, timeout |-> timeout]
    /\ startTime' = now + gap
    /\ companyName' = IF isValidUrl(input) THEN extractCompanyNameFromUrl(input) ELSE input
    /\ domain' = IF isValidUrl(input) THEN extractDomain(input) ELSE <<>>
    /\ pc' = IF force THEN "resolve" ELSE "cache"
    /\ UNCHANGED <<probe, apiKey, store, nreq, resolvedDomain, index, lastError, result,
                   pending, run, attempts, lookup, resolution, wrote, returned, prev>>

\* the cache check: await getCachedData(companyName, domain)
CacheCheck(outcome) ==
    /\ pc = "cache"
    /\ lookup' = outcome
    /\ \E hit \in getCachedData(store, companyName, domain, now, outcome) :
          IF hit # {}
          THEN /\ returned' = { [r EXCEPT !.cached = TRUE,
                                          !.retrievalTimestamp = now] : r \in hit }
               /\ pc' = "done"
          ELSE /\ pc' = "resolve"
               /\ UNCHANGED returned
    /\ UNCHANGED <<probe, apiKey, store, now, nreq, req, startTime, companyName, domain,
                   resolvedDomain, index, lastError, result, pending, run, attempts,
                   resolution, wrote, prev>>

\* step 1: the domain is known, or clearbitClient.enrichCompany is started
ResolveStart ==
    /\ pc = "resolve"
    /\ resolvedDomain' = domain
    /\ IF domain # <<>>
       THEN /\ pc' = "attempt"
            /\ UNCHANGED <<pending, run>>
       ELSE \E p \in ClearbitCalls(apiKey["clearbit"]) :
               /\ pending' = p
               /\ run' = [run EXCEPT !["clearbit"] = Activity(p, now)]
               /\ pc' = "resolving"
    /\ UNCHANGED <<probe, apiKey, store, now, nreq, req, startTime, companyName, domain,
                   index, lastError, result, attempts, lookup, resolution, wrote, returned, prev>>

\* mutant: the domain the lookup found is not adopted
ResolveSettle_dropsDomain ==
    /\ pc = "resolving"
    /\ \E s \in withTimeout(pending, ResolveTimeout(req.timeout)) :
          /\ now' = now + s.at
          /\ resolvedDomain' = resolvedDomain
          /\ resolution' =
                IF s.kind = "value"
                THEN Attempt("clearbit", now, now + s.at, pending.ret.kind, "", NoMsg)
                ELSE Attempt("clearbit", now, now + s.at, "error", "", s.error)
    /\ pending' = NoPending
    /\ pc' = "attempt"
    /\ UNCHANGED <<probe, apiKey, store, nreq, req, startTime, companyName, domain, index,
                   lastError, result, run, attempts, lookup, wrote, returned, prev>>

\* await withTimeout(enrichCompany(companyName), timeout / 4), and its catch
ResolveSettle ==
    /\ pc = "resolving"
    /\ \E s \in withTimeout(pending, ResolveTimeout(req.timeout)) :
          /\ now' = now + s.at
          /\ resolvedDomain' =
                IF s.kind = "value" /\ pending.ret.kind = "record"
                   /\ pending.ret.domain # <<>>
                THEN pending.ret.domain ELSE resolvedDomain
          /\ resolution' =
                IF s.kind = "value"
                THEN Attempt("clearbit", now, now + s.at, pending.ret.kind, "", NoMsg)
                ELSE Attempt("clearbit", now, now + s.at, "error", "", s.error)
    /\ pending' = NoPending
    /\ pc' = "attempt"
    /\ UNCHANGED <<probe, apiKey, store, nreq, req, startTime, companyName, domain, index,
                   lastError, result, run, attempts, lookup, wrote, returned, prev>>

\* the loop reaches dataSources[index]: the adapter is called
AttemptStart ==
    /\ pc = "attempt"
    /\ \E p \in SourceCalls(index, resolvedDomain) :
          /\ pending' = p
          /\ run' = [run EXCEPT ![p.source] = Activity(p, now)]
    /\ pc' = "attempting"
    /\ UNCHANGED <<probe, apiKey, store, now, nreq, req, startTime, companyName, domain,
                   resolvedDomain, index, lastError, result, attempts, lookup, resolution,
                   wrote, returned, prev>>

\* the loop is over without a result: the failure result is returned
GiveUp(last, t) ==
    /\ returned' = {FailureResult(companyName, resolvedDomain, last, t)}
    /\ pc' = "done"

\* await withTimeout(dataSource(), timeout / 3) settles with a value
AttemptReturns ==
    /\ pc = "attempting"
    /\ \E s \in withTimeout(pending, AttemptTimeout(req.timeout)) :
          /\ s.kind = "value"
          /\ now' = now + s.at
          /\ IF pending.ret.kind = "record"
             THEN /\ result' = {SuccessResult(companyName, resolvedDomain,
                                              pending.ret, now + s.at)}
                  /\ attempts' = Append(attempts,
                                    Attempt(pending.source, now, now + s.at, "record",
                                            pending.ret.source, NoMsg))
                  /\ pc' = "store"
                  /\ UNCHANGED <<index, returned>>
             ELSE /\ attempts' = Append(attempts,
                                    Attempt(pending.source, now, now + s.at, "null", "", NoMsg))
                  /\ index' = index + 1
                  /\ IF index + 1 < Len(DataSources)
                     THEN pc' = "attempt" /\ UNCHANGED returned
                     ELSE GiveUp(lastError, now + s.at)
                  /\ UNCHANGED result
    /\ pending' = NoPending
    /\ UNCHANGED <<probe, apiKey, store, nreq, req, startTime, companyName, domain,
                   resolvedDomain, lastError, run, lookup, resolution, wrote, prev>>

\* mutant: the catch block ends the loop
AttemptFails_givesUp ==
    /\ pc = "attempting"
    /\ \E s \in withTimeout(pending, AttemptTimeout(req.timeout)) :
          /\ s.kind = "error"
          /\ now' = now + s.at
          /\ lastError' = {s.error}
          /\ attempts' = Append(attempts,
                            Attempt(pending.source, now, now + s.at, "error", "", s.error))
          /\ GiveUp({s.error}, now + s.at)
    /\ pending' = NoPending
    /\ UNCHANGED <<probe, apiKey, store, nreq, req, startTime, companyName, domain,
                   resolvedDomain, index, result, run, lookup, resolution, wrote, prev>>

\* await withTimeout(dataSource(), timeout / 3) rejects: the catch block
AttemptFails ==
    /\ pc = "attempting"
    /\ \E s \in withTimeout(pending, AttemptTimeout(req.timeout)) :
          /\ s.kind = "error"
          /\ now' = now + s.at
          /\ lastError' = {s.error}
          /\ attempts' = Append(attempts,
                            Attempt(pending.source, now, now + s.at, "error", "", s.error))
          /\ IF index < Len(DataSources) - 1
             THEN pc' = "backoff" /\ UNCHANGED <<index, returned>>
             ELSE index' = index + 1 /\ GiveUp({s.error}, now + s.at)
    /\ pending' = NoPending
    /\ UNCHANGED <<probe, apiKey, store, nreq, req, startTime, companyName, domain,
                   resolvedDomain, result, run, lookup, resolution, wrote, prev>>

\* await delay(2^index * 1000), then the next iteration
BackoffDone ==
    /\ pc = "backoff"
    /\ now' = now + Backoff(index)
    /\ index' = index + 1
    /\ pc' = "attempt"
    /\ UNCHANGED <<probe, apiKey, store, nreq, req, startTime, companyName, domain,
                   resolvedDomain, lastError, result, pending, run, attempts,
                   lookup, resolution, wrote, returned, prev>>

\* mutant: a failed write fails the request
CacheWrite_failsOnError(outcome) ==
    /\ pc = "store"
    /\ \E r \in result :
          /\ store' = cacheResult(store, r, now, outcome)
          /\ wrote' = (cacheResult(store, r, now, outcome) # store)
    /\ returned' = IF outcome = "ok" THEN result
                   ELSE {FailureResult(companyName, resolvedDomain, {}, now)}
    /\ pc' = "done"
    /\ UNCHANGED <<probe, apiKey, now, nreq, req, startTime, companyName, domain,
                   resolvedDomain, index, lastError, result, pending, run, attempts,
                   lookup, resolution, prev>>

\* await cacheResult(result); return result
CacheWrite(outcome) ==
    /\ pc = "store"
    /\ \E r \in result :
          /\ store' = cacheResult(store, r, now, outcome)
          /\ wrote' = (cacheResult(store, r, now, outcome) # store)
    /\ returned' = result
    /\ pc' = "done"
    /\ UNCHANGED <<probe, apiKey, now, nreq, req, startTime, companyName, domain,
                   resolvedDomain, index, lastError, result, pending, run, attempts,
                   lookup, resolution, prev>>

\* The program reads the clock only through differences (now - 24h against
\* created_at, Date.now() - startTime), so its behaviour is the same when all
\* times are shifted together: the rows as seen when the clock restarts at 0.
Rebased(rows, t) == { [r EXCEPT !.created_at = r.created_at - t] : r \in rows }

\* the caller has the result; the locals of the call are gone, and the clock
\* restarts
Return ==
    /\ pc = "done"
    /\ prev' = { [input |-> req.companyInput, success |-> r.success,
                  cached |-> r.cached, wrote |-> wrote] : r \in returned }
    /\ now' = 0
    /\ store' = Rebased(store, now)
    /\ nreq' = nreq + 1
    /\ pc' = "idle"
    /\ req' = NoReq
    /\ startTime' = 0
    /\ companyName' = <<>>
    /\ domain' = <<>>
    /\ resolvedDomain' = <<>>
    /\ index' = 0
    /\ lastError' = {}
    /\ result' = {}
    /\ pending' = NoPending
    /\ run' = NoRun
    /\ attempts' = <<>>
    /\ lookup' = "none"
    /\ resolution' = NoAttempt
    /\ wrote' = FALSE
    /\ returned' = {}
    /\ UNCHANGED <<probe, apiKey>>

Next ==
    \/ \E input \in Inputs, force \in BOOLEAN, timeout \in TimeoutOptions,
          gap \in (IF nreq = 0 THEN {0} ELSE Gaps) :
          Invoke(input, force, timeout, gap)
    \/ \E outcome \in StorageOutcomes : CacheCheck(outcome)
    \/ ResolveStart
    \/ ResolveSettle
    \/ AttemptStart
    \/ AttemptReturns
    \/ AttemptFails
    \/ BackoffDone
    \/ \E outcome \in StorageOutcomes : CacheWrite(outcome)
    \/ Return

Spec == Init /\ [][Next]_vars

\* The event loop runs every timer and every continuation of a call that has
\* been made; nothing obliges a caller to call, nor a source to answer (a
\* source that never answers is a call that hangs).  The storage layer is
\* taken to answer every query.
Step ==
    \/ \E outcome \in StorageOutcomes : CacheCheck(outcome)
    \/ ResolveStart
    \/ ResolveSettle
    \/ AttemptStart
    \/ AttemptReturns
    \/ AttemptFails
    \/ BackoffDone
    \/ \E outcome \in StorageOutcomes : CacheWrite(outcome)

\* the first call of getFinancialData on a freshly constructed retriever
FirstCall ==
    /\ nreq = 0
    /\ \E input \in Inputs, force \in BOOLEAN, timeout \in TimeoutOptions :
          Invoke(input, force, timeout, 0)

\* one call of getFinancialData, from the call to its return
OneCall ==
    \/ FirstCall
    \/ Step
    \/ Return

FairSpec == Init /\ [][OneCall]_vars /\ WF_vars(Step)

(***************************************************************************)
(* The adapters on their own: a caller holds a client and calls its       *)
(* retrieval operation, the source answering the requests of the call     *)
(* with any script of responses.  pending holds the call and what it      *)
(* returned.                                                               *)
(***************************************************************************)
AllScrapeScripts == [1..Len(ScrapeTargets) -> ScrapeResponses]

AllSerpScripts == [1..SerpQueries -> SerpResponses]

DomainArgs == {<<>>, ClearbitDomain}

\* webScrapingService.scrapeFinancialData(companyName, domain)
CallScrape ==
    /\ pc = "idle"
    /\ \E dom \in DomainArgs, resps \in AllScrapeScripts, lat \in Latencies :
          pending' = Call("web", dom, resps, scrapeFinancialData(dom, resps), FALSE,
                          Duration(scrapeFinancialData(dom, resps), lat))
    /\ UNCHANGED <<probe, apiKey, store, now, nreq, pc, req, startTime, companyName, domain,
                   resolvedDomain, index, lastError, result, run, attempts,
                   lookup, resolution, wrote, returned, prev>>

\* peopleDataLabsClient.getCompanyData(companyName, domain)
CallPdl ==
    /\ pc = "idle"
    /\ \E dom \in DomainArgs, resp \in PdlResponses, lat \in Latencies :
          pending' = Call("pdl", dom, <<resp>>, getCompanyData(apiKey["pdl"], resp), FALSE,
                          Duration(getCompanyData(apiKey["pdl"], resp), lat))
    /\ UNCHANGED <<probe, apiKey, store, now, nreq, pc, req, startTime, companyName, domain,
                   resolvedDomain, index, lastError, result, run, attempts,
                   lookup, resolution, wrote, returned, prev>>

\* serpApiClient.getFinancialData(companyName, domain)
CallSerp ==
    /\ pc = "idle"
    /\ \E dom \in DomainArgs, resps \in AllSerpScripts, lat \in Latencies :
          pending' = Call("serp", dom, resps, serpGetFinancialData(apiKey["serp"], resps),
                          FALSE, Duration(serpGetFinancialData(apiKey["serp"], resps), lat))
    /\ UNCHANGED <<probe, apiKey, store, now, nreq, pc, req, startTime, companyName, domain,
                   resolvedDomain, index, lastError, result, run, attempts,
                   lookup, resolution, wrote, returned, prev>>

\* clearbitClient.enrichCompany(companyName)
CallClearbit ==
    /\ pc = "idle"
    /\ \E resp \in ClearbitResponses, lat \in Latencies :
          pending' = Call("clearbit", <<>>, <<resp>>, enrichCompany(apiKey["clearbit"], resp),
                          FALSE, Duration(enrichCompany(apiKey["clearbit"], resp), lat))
    /\ UNCHANGED <<probe, apiKey, store, now, nreq, pc, req, startTime, companyName, domain,
                   resolvedDomain, index, lastError, result, run, attempts,
                   lookup, resolution, wrote, returned, prev>>

AdapterNext ==
    \/ CallScrape
    \/ CallPdl
    \/ CallSerp
    \/ CallClearbit

AdapterSpec == Init /\ [][AdapterNext]_vars

(***************************************************************************)
(* The helper functions on their own: each action is one direct call, on   *)
(* an argument of a bounded set, and probe keeps the argument and the      *)
(* value.  The functions keep no state, so a behaviour makes one call.     *)
(***************************************************************************)
\* everything but probe
callState == <<apiKey, store, now, nreq, pc, req, startTime, companyName, domain,
               resolvedDomain, index, lastError, result, pending, run, attempts,
               lookup, resolution, wrote, returned, prev>>

\* ---- input classification ----
MaxLen == 3

Alphabet == {"https://", "www.", "Acme", ".", "com", " ", "/", "-"}

Strings(n) == UNION { [1..k -> Alphabet] : k \in 0..n }

\* the strings of at most MaxLen tokens in which a scheme stands only at the
\* start and "www." only at the start of the host, and which the URL parser
\* reads as the model does: no trailing space (the parser trims it) and no
\* "/" right after the scheme (the parser skips it)
ClassifyInputs ==
    { s \in Strings(MaxLen) :
         /\ \A i \in 2..Len(s) : s[i] \notin Schemes
         /\ \A i \in 2..Len(s) : s[i] = "www." => (i = 2 /\ s[1] \in Schemes)
         /\ s # <<>> => s[Len(s)] # " "
         /\ Len(s) >= 2 => Head(StripScheme(s)) # "/" }

\* the first statements of getFinancialData, and extractDomain and
\* extractCompanyNameFromUrl called with the input itself
Classify ==
    /\ pc = "idle"
    /\ probe = NoProbe
    /\ \E input \in ClassifyInputs :
          probe' = [op |-> "classify",
                    input |-> input,
                    isUrl |-> isValidUrl(input),
                    companyName |-> IF isValidUrl(input)
                                    THEN extractCompanyNameFromUrl(input) ELSE input,
                    domain |-> IF isValidUrl(input) THEN extractDomain(input) ELSE <<>>,
                    extractDomain |-> extractDomain(input),
                    extractCompanyNameFromUrl |-> extractCompanyNameFromUrl(input)]
    /\ UNCHANGED callState

ClassifySpec == Init /\ [][Classify]_vars

\* ---- extraction of fields from text and from API records ----
\* a text is the sequence of its mentions, a mention a key phrase followed by
\* an amount; the patterns of a field are named by their key phrases
revenuePatterns ==
    <<"revenue", "arr", "annual recurring revenue", "sales", "gross revenue">>

mrrPatterns == <<"mrr", "monthly recurring revenue", "monthly revenue">>

fundingPatterns == <<"raised", "funding", "series", "seed", "pre-seed", "round">>

valuationPatterns == <<"valuation", "valued at", "pre-money", "post-money">>

growthPatterns ==
    <<"growth", "growing", "yoy", "year over year", "mom", "month over month">>

burnPatterns == <<"burn rate", "monthly burn", "cash burn">>

runwayPatterns == <<"runway", "cash runway">>

\* the pattern matches the mention: the pattern's key phrase is the
\* mention's, or the end of it
Covers(pattern, phrase) ==
    \/ pattern = phrase
    \/ <<pattern, phrase>> \in
          { <<"revenue", "annual recurring revenue">>, <<"revenue", "gross revenue">>,
            <<"revenue", "monthly recurring revenue">>, <<"revenue", "monthly revenue">>,
            <<"seed", "pre-seed">>, <<"runway", "cash runway">> }

\* pattern.exec(text) of a fresh pattern: the first match, 0 when none
Exec(pattern, text) ==
    IF \E i \in 1..Len(text) : Covers(pattern, text[i].phrase)
    THEN CHOOSE i \in 1..Len(text) :
            /\ Covers(pattern, text[i].phrase)
            /\ \A j \in 1..(i - 1) : ~Covers(pattern, text[j].phrase)
    ELSE 0

\* mutant: the earliest mention any of the patterns matches
FirstMatch_inTextOrder(patterns, text) ==
    LET hits == { i \in 1..Len(text) :
                     \E k \in 1..Len(patterns) : Covers(patterns[k], text[i].phrase) }
    IN  IF hits = {} THEN 0 ELSE CHOOSE i \in hits : \A j \in hits : i <= j

\* for (const pattern of patterns) { match = pattern.exec(text); if (match) { ...; break } }
FirstMatch(patterns, text) ==
    LET hit == { k \in 1..Len(patterns) : Exec(patterns[k], text) # 0 }
    IN  IF hit = {} THEN 0
        ELSE Exec(patterns[CHOOSE k \in hit : \A l \in hit : k <= l], text)

\* `$${amount}${unit.toUpperCase()}` and the other templates
Amount(m) == <<"$", m.amount, "M">>

\* for (pattern) while ((match = pattern.exec(text)) !== null) fundingRounds.push(...)
RECURSIVE AllMatches(_, _, _)
AllMatches(k, patterns, text) ==
    IF k > Len(patterns) THEN <<>>
    ELSE LET ms == SelectSeq(text, LAMBDA m : Covers(patterns[k], m.phrase))
         IN  [i \in 1..Len(ms) |-> Amount(ms[i])] \o AllMatches(k + 1, patterns, text)

\* the value of a field that takes its first match; <<>> is an absent field
Field(patterns, text, suffix) ==
    IF FirstMatch(patterns, text) = 0 THEN <<>>
    ELSE Amount(text[FirstMatch(patterns, text)]) \o suffix

extractFinancialDataFromText(text) ==
    LET fundingRounds == AllMatches(1, fundingPatterns, text)
        financialData ==
           [revenue |-> Field(revenuePatterns, text, <<>>),
            arr_mrr |-> Field(mrrPatterns, text, <<" MRR">>),
            funding_rounds |-> fundingRounds,
            last_funding_amount |->
               IF fundingRounds = <<>> THEN <<>> ELSE fundingRounds[Len(fundingRounds)],
            valuation |-> Field(valuationPatterns, text, <<>>),
            growth_rate |->
               IF FirstMatch(growthPatterns, text) = 0 THEN <<>>
               ELSE <<text[FirstMatch(growthPatterns, text)].amount, "%">>,
            burn_rate |-> Field(burnPatterns, text, <<"/month">>),
            runway |->
               IF FirstMatch(runwayPatterns, text) = 0 THEN <<>>
               ELSE <<text[FirstMatch(runwayPatterns, text)].amount, " ", "months">>]
    IN  IF \A f \in DOMAIN financialData : financialData[f] = <<>>
        THEN [kind |-> "null"]
        ELSE [kind |-> "record", financialData |-> financialData]

\* the longest text
MaxMentions == 3

Phrases == {"revenue", "sales", "raised", "pre-seed", "growth"}

Amounts == {"1", "2"}

Texts ==
    UNION { [1..n -> [phrase : Phrases, amount : Amounts]] : n \in 0..MaxMentions }

ExtractText ==
    /\ pc = "idle"
    /\ probe = NoProbe
    /\ \E text \in Texts :
          probe' = [op |-> "text", text |-> text, out |-> extractFinancialDataFromText(text)]
    /\ UNCHANGED callState

\* the text of the organic results: a mention is "raised ... $N million"
\* (the key word first) or "$N million ... raised" (the amount first)
OrganicTexts ==
    UNION { [1..n -> [order : {"word-amount", "amount-word"}, amount : Amounts]] :
              n \in 0..MaxMentions }

\* /(?:raised|funding|investment).*?\$(\d+(?:\.\d+)?)\s*(million|billion|m|b)/gi:
\* from the first key word that has an amount after it, to the next amount
ExecWordAmount(text) ==
    LET from == { i \in 1..Len(text) : text[i].order = "word-amount" \/ i < Len(text) }
        i == CHOOSE i \in from : \A j \in from : i <= j
    IN  IF from = {} THEN <<>>
        ELSE IF text[i].order = "word-amount" THEN <<"$", text[i].amount, "M">>
        ELSE <<"$", text[i + 1].amount, "M">>

\* /\$(\d+(?:\.\d+)?)\s*(million|billion|m|b).*?(?:funding|investment|raised)/gi:
\* from the first amount that has a key word after it
ExecAmountWord(text) ==
    LET from == { i \in 1..Len(text) : text[i].order = "amount-word" \/ i < Len(text) }
    IN  IF from = {} THEN <<>>
        ELSE <<"$", text[CHOOSE i \in from : \A j \in from : i <= j].amount, "M">>

\* totalFunding after the organic results, given what the knowledge graph
\* and the answer box have set
organicTotalFunding(prior, text) ==
    IF prior # <<>> THEN prior
    ELSE IF ExecWordAmount(text) # <<>> THEN ExecWordAmount(text)
    ELSE ExecAmountWord(text)

ExtractOrganic ==
    /\ pc = "idle"
    /\ probe = NoProbe
    /\ \E prior \in {<<>>, <<"$", "9", "M">>}, text \in OrganicTexts :
          probe' = [op |-> "organic", prior |-> prior, text |-> text,
                    totalFunding |-> organicTotalFunding(prior, text)]
    /\ UNCHANGED callState

\* the sizes People Data Labs reports, and no size
Sizes ==
    { <<1, "-", 10>>, <<11, "-", 50>>, <<51, "-", 200>>, <<201, "-", 500>>,
      <<501, "-", 1000>>, <<1001, "-", 5000>>, <<5001, "-", 10000>>,
      <<"10001+">>, <<>> }

\* data.size.match(/(\d+)-(\d+)/)
IsRange(size) == Len(size) = 3 /\ size[2] = "-"

\* Math.round(sum / 2) of a sum that is not negative
MathRoundHalf(sum) == (sum + 1) \div 2

\* financialData.employeeCount of getCompanyData; <<>> is an absent field
employeeCount(data) ==
    IF data.employee_count # 0 THEN <<data.employee_count>>
    ELSE IF data.estimated_num_employees # 0 THEN <<data.estimated_num_employees>>
    ELSE IF data.size = <<>> THEN <<>>
    ELSE IF IsRange(data.size)
         THEN <<MathRoundHalf(data.size[1] + data.size[3]), " (">> \o data.size \o <<")">>
    ELSE data.size

ExtractEmployees ==
    /\ pc = "idle"
    /\ probe = NoProbe
    /\ \E data \in [employee_count : {0, 120}, estimated_num_employees : {0, 80},
                      size : Sizes] :
          probe' = [op |-> "employees", data |-> data, employeeCount |-> employeeCount(data)]
    /\ UNCHANGED callState

ExtractNext ==
    \/ ExtractText
    \/ ExtractOrganic
    \/ ExtractEmployees

ExtractSpec == Init /\ [][ExtractNext]_vars

\* ---- the cache on its own ----
\* the rows the table may hold
MaxRows == 2

\* the (company name, domain) pairs requests are classified as, and results
\* are stored under
Keys ==
    { [name |-> <<"Test", " ", "Company">>, domain |-> <<>>],
      [name |-> <<"Test", " ", "Company">>, domain |-> ClearbitDomain],
      [name |-> <<"Test", " ", "Company", " ", "Labs">>, domain |-> <<"labs", ".", "com">>],
      [name |-> <<"Acme", " ", "Corp">>, domain |-> <<>>] }

\* the records adapters return
Records ==
    { Returned("record", {"totalFunding"}, "Crunchbase", <<>>, 1, 0),
      Returned("record", {"employeeCount"}, "People Data Labs", <<>>, 1, 0) }

\* the clock of the cache runs from 0 to one millisecond past the TTL
Waits(t) == { gap \in {0, TTL, TTL + 1} : t + gap <= TTL + 1 }

\* cacheResult(result) of a success result, gap ms after the previous
\* operation
CachePut ==
    /\ pc = "idle"
    /\ Cardinality(store) < MaxRows
    /\ \E key \in Keys, ret \in Records, gap \in Waits(now) :
          /\ now' = now + gap
          /\ store' = cacheResult(store, SuccessResult(key.name, key.domain, ret, now + gap),
                                  now + gap, "ok")
          /\ probe' = [op |-> "put", name |-> key.name, domain |-> key.domain,
                       financialData |-> ret.financialData, source |-> ret.source]
    /\ UNCHANGED <<apiKey, nreq, pc, req, startTime, companyName, domain,
                   resolvedDomain, index, lastError, result, pending, run, attempts,
                   lookup, resolution, wrote, returned, prev>>

\* getCachedData(companyName, domain), gap ms after the previous operation
CacheGet ==
    /\ pc = "idle"
    /\ \E key \in Keys, gap \in Waits(now) :
          /\ now' = now + gap
          /\ \E hit \in getCachedData(store, key.name, key.domain, now + gap, "ok") :
                probe' = [op |-> "get", name |-> key.name, domain |-> key.domain,
                          out |-> hit]
    /\ UNCHANGED <<apiKey, store, nreq, pc, req, startTime, companyName, domain,
                   resolvedDomain, index, lastError, result, pending, run, attempts,
                   lookup, resolution, wrote, returned, prev>>

CacheNext ==
    \/ CachePut
    \/ CacheGet

CacheSpec == Init /\ [][CacheNext]_vars

(***************************************************************************)
(* Properties                                                              *)
(***************************************************************************)
Done == pc = "done"

TheResult == CHOOSE r \in returned : TRUE

Outcomes == [i \in 1..Len(attempts) |-> attempts[i].outcome]

\* the message of the last error the chain met, if any
LastErrorOf(as) ==
    IF \E i \in 1..Len(as) : as[i].outcome = "error"
    THEN LET last == CHOOSE i \in 1..Len(as) :
                        /\ as[i].outcome = "error"
                        /\ \A j \in (i + 1)..Len(as) : as[j].outcome # "error"
         IN  {as[last].error}
    ELSE {}

\* C1: in a request that missed the cache the adapters are invoked in the
\* order web-scrape, people/company-enrichment, search-engine-results; an
\* adapter is invoked only after every adapter before it failed or returned
\* nothing; after an adapter returned a record no other adapter is invoked
\* and the result carries the source that adapter reported.
C1_FixedOrder ==
    /\ Len(attempts) <= 3
    /\ \A i \in 1..Len(attempts) :
          /\ attempts[i].source = <<"web", "pdl", "serp">>[i]
          /\ i < Len(attempts) => attempts[i].outcome \in {"null", "error"}
    /\ pc = "attempting" =>
          /\ Len(attempts) < 3
          /\ pending.source = <<"web", "pdl", "serp">>[Len(attempts) + 1]
          /\ \A i \in 1..Len(attempts) : attempts[i].outcome \in {"null", "error"}
    /\ (attempts # <<>> /\ attempts[Len(attempts)].outcome = "record") =>
          /\ pc \in {"store", "done"}
          /\ pending = NoPending
          /\ Done => /\ TheResult.success
                     /\ TheResult.source = attempts[Len(attempts)].reported
                     /\ TheResult.source # ""

C1_Witness ==
    /\ Done
    /\ Outcomes = <<"error", "null", "record">>
    /\ TheResult.source = "SerpAPI"

\* C2: an error of one source never ends the request: after an attempt that
\* threw, was rejected or timed out every remaining adapter is still
\* attempted, and a failure result is returned only when all three adapters
\* have been attempted and none produced a record.
C2_ErrorsNeverTerminate ==
    Done =>
       /\ \A i \in 1..Len(attempts) :
             attempts[i].outcome = "error" /\ i < 3 => Len(attempts) > i
       /\ ~TheResult.success =>
             /\ Len(attempts) = 3
             /\ {attempts[i].source : i \in 1..3} = {"web", "pdl", "serp"}
             /\ \A i \in 1..3 : attempts[i].outcome \in {"null", "error"}

C2_Witness ==
    /\ Done
    /\ ~TheResult.success
    /\ Outcomes = <<"error", "error", "null">>

\* C3: getFinancialData never rejects: whatever the cache, the domain
\* resolution and the adapters do, the call resolves to one result with a
\* boolean success, and a result with success false carries an error with a
\* message, a source and details.
C3_AlwaysStructuredResult ==
    /\ pc \in {"idle", "cache", "resolve", "resolving", "attempt", "attempting",
               "backoff", "store", "done"}
    /\ Done =>
          /\ Cardinality(returned) = 1
          /\ "success" \in TheResult.present
          /\ TheResult.success \in BOOLEAN
          /\ ~TheResult.success =>
                /\ "error" \in TheResult.present
                /\ TheResult.error.message.text # ""
                /\ TheResult.error.source # ""
                /\ TheResult.error.details.text # ""
    /\ ~Done => returned = {}

C3_Witness ==
    /\ Done
    /\ ~TheResult.success
    /\ lookup = "throw"
    /\ resolution.outcome = "error"
    /\ Outcomes = <<"error", "null", "error">>

\* C4 as stated: when every adapter failed or returned nothing the result is
\* a failure whose error source is "All Sources" and whose error message is
\* the message of the last error met in the chain.
C4_MessageIsLastError ==
    (Done /\ ~TheResult.success) =>
       /\ TheResult.error.source = "All Sources"
       /\ LastErrorOf(attempts) # {} => TheResult.error.message \in LastErrorOf(attempts)

\* C4 amended: when every adapter failed or returned nothing the result is a
\* failure whose error source is "All Sources", whose error message is the
\* fixed text "Failed to retrieve financial data from all sources" and whose
\* error details are the message of the last error met in the chain, or
\* "All data sources failed" when no adapter raised an error.
C4_DetailsAreLastError ==
    (Done /\ Len(attempts) = 3 /\ \A i \in 1..3 : attempts[i].outcome # "record") =>
       /\ ~TheResult.success
       /\ TheResult.error.source = "All Sources"
       /\ TheResult.error.message.text = "Failed to retrieve financial data from all sources"
       /\ LastErrorOf(attempts) # {} => TheResult.error.details \in LastErrorOf(attempts)
       /\ LastErrorOf(attempts) = {} =>
             TheResult.error.details.text = "All data sources failed"

C4_Witness ==
    /\ Done
    /\ ~TheResult.success
    /\ Outcomes = <<"null", "error", "null">>
    /\ TheResult.error.details = TimeoutMsg(10000)

\* scenario D: no API key, every web-scrape target answers 404
C4_ScenarioD ==
    /\ Done
    /\ \A k \in DOMAIN apiKey : ~apiKey[k]
    /\ Outcomes = <<"null", "null", "null">>
    /\ TheResult.error.source = "All Sources"

ThePrev == CHOOSE c \in prev : TRUE

\* the call made no outbound request to any source
NoNetwork ==
    /\ \A src \in Sources : ~run[src].net
    /\ attempts = <<>>
    /\ resolution = NoAttempt
    /\ pending = NoPending

\* the rows the table held when the running call queried the cache
RowsAtLookup == { r \in store : r.created_at <= startTime }

Matching(r) ==
    \/ \E i \in 0..(Len(r.company_name) - Len(companyName)) :
          \A j \in 1..Len(companyName) :
             Lower(r.company_name[i + j]) = Lower(companyName[j])
    \/ r.domain = domain

\* created more than 24 hours before the lookup
Expired(r) == startTime - r.created_at > 86400000

FreshMatching == { r \in RowsAtLookup : Matching(r) /\ ~Expired(r) }

\* the result is the row, tagged as a cache hit
IsHitOf(res, r) ==
    /\ res.success
    /\ res.cached
    /\ "cached" \in res.present
    /\ res.companyName = r.company_name
    /\ res.domain = r.domain
    /\ res.financialData = r.financial_data
    /\ res.source = r.source

\* the second call of scenario E: same input as the successful previous call,
\* within 24 hours, forceRefresh unset
SecondCall ==
    /\ pc # "idle"
    /\ prev # {}
    /\ ThePrev.success
    /\ req.companyInput = ThePrev.input
    /\ ~req.forceRefresh
    /\ startTime <= 86400000

\* C5 as stated: after a successful call for an input, a second call with the
\* same input within 24 hours and forceRefresh unset returns a result with
\* cached = true and makes no outbound network call.
C5_SecondCallIsCached ==
    (SecondCall /\ Done) => (TheResult.cached /\ NoNetwork)

\* C5 amended: after a successful call for an input whose result was stored
\* in the cache, a second call with the same input within 24 hours and
\* forceRefresh unset, whose cache query the storage layer answers, returns a
\* result with cached = true and makes no outbound network call (no domain
\* resolution, no adapter attempt).
C5_StoredThenCached ==
    (SecondCall /\ ThePrev.wrote /\ lookup = "ok") =>
       /\ Done
       /\ TheResult.success
       /\ TheResult.cached
       /\ "cached" \in TheResult.present
       /\ NoNetwork

C5_Witness ==
    /\ SecondCall
    /\ ThePrev.wrote
    /\ lookup = "ok"
    /\ Done
    /\ TheResult.cached
    /\ req.companyInput = <<"Test", " ", "Company">>
    /\ TheResult.domain = ClearbitDomain

\* C6: a cache entry created more than 24 hours before the lookup is treated
\* as absent: a cache hit is never such an entry, and a call that finds only
\* such entries is not short-circuited and runs the fallback chain.
C6_ExpiredIsAbsent ==
    /\ (Done /\ TheResult.cached) =>
          \E r \in RowsAtLookup : ~Expired(r) /\ IsHitOf(TheResult, r)
    /\ (lookup # "none" /\ \A r \in RowsAtLookup : Matching(r) => Expired(r)) =>
          /\ pc # "cache"
          /\ Done => (~TheResult.cached /\ attempts # <<>>)

C6_Witness ==
    /\ Done
    /\ lookup = "ok"
    /\ \E r \in RowsAtLookup : Matching(r) /\ Expired(r)
    /\ ~TheResult.cached
    /\ attempts # <<>>

C7_WitnessHit ==
    /\ Done
    /\ ~req.forceRefresh
    /\ lookup = "ok"
    /\ \E r \in FreshMatching : IsHitOf(TheResult, r)

\* C8: when the first adapter's attempt fails with an error and the second
\* adapter succeeds, the result's source is the second adapter's, and the
\* elapsed time of the request includes at least the backoff delay of one
\* second between the two attempts.
C8_FallbackOrdering ==
    (Done /\ Len(attempts) >= 2 /\ attempts[1].outcome = "error"
          /\ attempts[2].outcome = "record") =>
       /\ TheResult.success
       /\ attempts[2].source = "pdl"
       /\ TheResult.source = "People Data Labs"
       /\ attempts[2].startedAt - attempts[1].endedAt >= 1000
       /\ now - startTime >= (attempts[1].endedAt - attempts[1].startedAt) + 1000

C8_Witness ==
    /\ Done
    /\ Outcomes = <<"error", "record">>
    /\ TheResult.source = "People Data Labs"

\* every awaited step ended within its timeout, and a step that ended at its
\* timeout ended with the "timed out after Nms" error, which was caught
StepsBounded ==
    /\ \A i \in 1..Len(attempts) :
          /\ attempts[i].endedAt - attempts[i].startedAt <= req.timeout \div 3
          /\ attempts[i].outcome = "error" =>
                /\ attempts[i].error.text = "Operation timed out after Nms"
                /\ attempts[i].error.ms = req.timeout \div 3
                /\ attempts[i].endedAt - attempts[i].startedAt = attempts[i].error.ms
    /\ resolution.endedAt - resolution.startedAt <= req.timeout \div 4
    /\ resolution.outcome = "error" =>
          /\ resolution.error.text = "Operation timed out after Nms"
          /\ resolution.error.ms = req.timeout \div 4
          /\ resolution.endedAt - resolution.startedAt = resolution.error.ms

\* C9: the domain resolution and each adapter attempt are bounded by their own
\* timeout: a source that does not answer in time is abandoned with the error
\* "timed out after Nms", the orchestrator catches that error, and the call
\* eventually returns a result even when every source hangs for ever.
C9_EveryStepTimesOut ==
    /\ [](StepsBounded)
    /\ [](pc # "idle" => <>Done)

C9_Witness ==
    /\ Done
    /\ resolution.outcome = "error"
    /\ Outcomes = <<"error", "error", "error">>
    /\ \A src \in Sources : run[src].hangs
    /\ now - startTime = 7500 + 10000 + 1000 + 10000 + 2000 + 10000

\* C10 as stated: at every moment of a request at most one adapter of the
\* fallback chain has network activity in flight, also after an attempt was
\* ended by the orchestrator's timeout and the next adapter was started.
C10_OneAdapterInFlight ==
    Cardinality({ src \in {"web", "pdl", "serp"} : InFlight(src, now) }) <= 1

\* the steps of the running call that ended in the orchestrator's timeout
TimedOut(a, ms) == a.outcome = "error" /\ a.error = TimeoutMsg(ms)

\* C11 as stated: once the orchestrator's timeout of the domain-resolution
\* step or of an adapter attempt has fired, the timed-out adapter has no
\* network request in flight any more.
C11_TimedOutIsAborted ==
    /\ \A i \in 1..Len(attempts) :
          (TimedOut(attempts[i], AttemptTimeout(req.timeout)) /\ now > attempts[i].endedAt)
             => ~InFlight(attempts[i].source, now)
    /\ (TimedOut(resolution, ResolveTimeout(req.timeout)) /\ now > resolution.endedAt)
          => ~InFlight("clearbit", now)

\* the timeouts granted so far to the steps of the running call
Granted ==
    (IF resolution.outcome # "none" THEN ResolveTimeout(req.timeout) ELSE 0)
    + Len(attempts) * AttemptTimeout(req.timeout)

\* C12 as stated: the timeouts granted to the domain-resolution step and to
\* the adapter attempts of one request add up to at most the budget T of the
\* request.
C12_BudgetDivided == Granted <= req.timeout

\* the fallback chain of the running call has been entered
ChainEntered ==
    \/ pc \in {"attempt", "attempting", "backoff", "store"}
    \/ Done /\ ~TheResult.cached

\* the domain the chain works with: the one the lookup came back with in
\* time, else the one of the input classification
ChainDomain ==
    IF resolution.outcome = "record" /\ run["clearbit"].found # <<>>
    THEN run["clearbit"].found
    ELSE domain

\* C13: the domain lookup is made exactly when the input classification left
\* the domain empty and the cache did not hit; a domain it returns is passed
\* to every adapter and recorded in the result; when it returns nothing,
\* fails or times out the chain still runs, with the empty domain; the
\* lookup adapter is never the source of the financial record.
C13_BestEffortResolution ==
    /\ ChainEntered => (resolution.outcome # "none" <=> domain = <<>>)
    /\ ~ChainEntered /\ pc # "resolving" => resolution.outcome = "none"
    /\ ChainEntered =>
          /\ resolvedDomain = ChainDomain
          /\ \A i \in 1..Len(attempts) :
                /\ attempts[i].source # "clearbit"
                /\ run[attempts[i].source].domain = ChainDomain
          /\ pc = "attempting" => pending.domain = ChainDomain /\ pending.source # "clearbit"
    /\ (Done /\ ~TheResult.cached) =>
          /\ Len(attempts) >= 1
          /\ TheResult.domain = ChainDomain
          /\ TheResult.source \notin {"clearbit", "Clearbit"}
          /\ resolution.outcome \in {"null", "error"} => TheResult.domain = <<>>

C13_Witness ==
    /\ Done
    /\ TheResult.success
    /\ resolution.outcome = "record"
    /\ TheResult.domain = ClearbitDomain
    /\ Len(attempts) = 3

C13_WitnessTimedOut ==
    /\ Done
    /\ resolution.outcome = "error"
    /\ run["clearbit"].hangs
    /\ TheResult.domain = <<>>
    /\ Len(attempts) >= 1

\* C14 as stated: in the search-engine-results adapter a 429 answer is a
\* hard failure: the call rejects and no query is issued after the one that
\* was answered 429.
C14_RateLimitIsHard ==
    (pending.source = "serp" /\ apiKey["serp"]) =>
       \A i \in 1..Len(pending.script) :
          (/\ pending.script[i] = "429"
           /\ \A j \in 1..(i - 1) : pending.script[j] = "200-empty")
          => /\ pending.ret.kind = "throw"
             /\ pending.ret.fetches = i

\* C15 as stated: getCompanyData of the people/company-enrichment adapter
\* resolves to null on a 404 answer and raises an error to its caller on a
\* 429 or a 401 answer.
C15_TypedErrors ==
    (pending.source = "pdl" /\ apiKey["pdl"]) =>
       /\ pending.script = <<"404">> => pending.ret.kind = "null"
       /\ pending.script \in {<<"429">>, <<"401">>} => pending.ret.kind = "throw"

\* C16: a search-engine-results or people/company-enrichment adapter
\* constructed without its API key resolves every call to null at once and
\* issues no network request, whatever the source would have answered.
C16_NoKeyShortCircuits ==
    (pending.source \in {"serp", "pdl"} /\ ~apiKey[pending.source]) =>
       /\ pending.ret = NullReturn(0, 0)
       /\ pending.ret.fetches = 0
       /\ pending.duration = 0

C16_Witness ==
    /\ pending.source = "serp"
    /\ ~apiKey["serp"]
    /\ pending.script = [i \in 1..SerpQueries |-> "200-data"]
    /\ pending.ret.kind = "null"

\* the source answered the call with nothing that holds a field
ZeroField(p) ==
    /\ p.script # <<>>
    /\ \A i \in 1..Len(p.script) : p.script[i] \in {"200-empty", "none"}

\* C17: a FinancialRecord (modelled as the set of its fields that hold a
\* value) is usable only with at least one field: every success result, every
\* record an adapter hands to the orchestrator and every cached record has
\* one, an answer without any field reaches the orchestrator as null, and
\* after a null the orchestrator goes on to the next adapter, or gives up
\* after the last.
C17_UsableRecords ==
    /\ (Done /\ TheResult.success) =>
          /\ "financialData" \in TheResult.present
          /\ TheResult.financialData # {}
    /\ \A r \in store : r.financial_data # {}
    /\ pc = "attempting" =>
          /\ pending.ret.kind = "record" => pending.ret.financialData # {}
          /\ ZeroField(pending) => pending.ret = NullReturn(pending.ret.fetches,
                                                            pending.ret.delays)
    /\ \A i \in 1..Len(attempts) :
          /\ attempts[i].outcome = "record" => i = Len(attempts) /\ pc \in {"store", "done"}
          /\ attempts[i].outcome = "null" =>
                \/ i < Len(attempts)
                \/ i < Len(DataSources) /\ pc \in {"attempt", "attempting"}
                \/ i = Len(DataSources) /\ Done /\ ~TheResult.success

C17_Witness ==
    /\ pc = "attempting"
    /\ pending.source = "serp"
    /\ apiKey["serp"]
    /\ ZeroField(pending)
    /\ ~pending.hangs
    /\ Len(attempts) = 2
    /\ attempts[2].outcome = "null"

\* the attempt that ended the chain, if any, returned a record
Retrieved ==
    /\ attempts # <<>>
    /\ attempts[Len(attempts)].outcome = "record"

\* C18: the cache is written only after a fresh retrieval succeeded, never
\* for a failure result and never on a cache hit, and a write that fails at
\* the storage layer leaves the outcome as it is: success with the retrieved
\* record and source.
C18_WriteOnlyAfterSuccess ==
    /\ wrote => /\ Done
                /\ Retrieved
                /\ TheResult.success
                /\ ~TheResult.cached
    /\ (Done /\ (~TheResult.success \/ TheResult.cached)) =>
          /\ ~wrote
          /\ store = RowsAtLookup
    /\ (Done /\ Retrieved) =>
          /\ TheResult.success
          /\ ~TheResult.cached
          /\ TheResult.financialData # {}
          /\ TheResult.source = attempts[Len(attempts)].reported
          /\ ~wrote => store = RowsAtLookup

C18_Witness ==
    /\ Done
    /\ Retrieved
    /\ ~wrote
    /\ TheResult.success
    /\ TheResult.source = "People Data Labs"

\* C19: a cache lookup that fails at the storage layer, by an error value or
\* by an exception, is a cache miss: the request goes on to the domain
\* resolution and the fallback chain, and fails only when the chain fails.
C19_LookupFailureIsMiss ==
    lookup \in {"error", "throw"} =>
       /\ pc \notin {"cache", "idle"}
       /\ Done =>
             /\ ~TheResult.cached
             /\ Len(attempts) >= 1
             /\ resolution.outcome # "none" <=> domain = <<>>
             /\ TheResult.success <=> Retrieved
             /\ ~TheResult.success =>
                   /\ Len(attempts) = Len(DataSources)
                   /\ TheResult.error.source = "All Sources"
                   /\ TheResult.error.details =
                         IF LastErrorOf(attempts) = {}
                         THEN Msg("All data sources failed", 0)
                         ELSE CHOOSE e \in LastErrorOf(attempts) : TRUE

C19_Witness ==
    /\ Done
    /\ lookup = "throw"
    /\ TheResult.success
    /\ store # {}
    /\ \E r \in RowsAtLookup : Matching(r) /\ ~Expired(r)

\* C20 as stated: the table holds at most one row for a pair of company name
\* and domain.
C20_OneRowPerKey ==
    \A r, q \in store :
       (r.company_name = q.company_name /\ r.domain = q.domain) => r = q

\* C23 as stated: an input without scheme and without dot, of one word or
\* several, is kept unchanged as the company name and its initial domain is
\* empty.
C23_NamesAreKept ==
    (/\ pc # "idle"
     /\ req.companyInput # <<>>
     /\ \A i \in 1..Len(req.companyInput) :
           req.companyInput[i] \notin (Schemes \cup {".", "www."}))
    => /\ companyName = req.companyInput
       /\ domain = <<>>

\* C26: the wait before attempt i + 1 is 2^(i-1) seconds when attempt i (the
\* i-th of the chain, counted from 1) ended in an error and nothing when it
\* returned without a record; the orchestrator waits only after an error
\* that was not the last adapter's, and returns at once after the last
\* attempt.
C26_BackoffOnErrorsOnly ==
    /\ \A i \in 1..(Len(attempts) - 1) :
          attempts[i + 1].startedAt - attempts[i].endedAt =
             IF attempts[i].outcome = "error" THEN (2 ^ (i - 1)) * 1000 ELSE 0
    /\ pc = "backoff" =>
          /\ attempts[Len(attempts)].outcome = "error"
          /\ Len(attempts) < Len(DataSources)
    /\ (Done /\ Len(attempts) = Len(DataSources)) =>
          /\ now = attempts[Len(attempts)].endedAt
          /\ TheResult.retrievalTimestamp = attempts[Len(attempts)].endedAt

C26_Witness ==
    /\ Done
    /\ Outcomes = <<"error", "error", "null">>
    /\ attempts[2].startedAt - attempts[1].endedAt = 1000
    /\ attempts[3].startedAt - attempts[2].endedAt = 2000
    /\ now = attempts[3].endedAt

\* the source names of the records that adapters of the running call
\* deliver after their attempt was ended by the timeout
LateRecords ==
    { run[attempts[i].source].yields :
         i \in { j \in 1..Len(attempts) :
                   /\ TimedOut(attempts[j], AttemptTimeout(req.timeout))
                   /\ run[attempts[j].source].yields # "" } }

\* C28: a record an adapter delivers after the orchestrator's timeout of its
\* attempt has fired is neither returned nor stored: a success result comes
\* from an attempt that ended within its timeout, and no row written by the
\* call carries the source of a late record.
C28_LateRecordDiscarded ==
    /\ \A i \in 1..Len(attempts) :
          attempts[i].outcome = "record" =>
             /\ attempts[i].endedAt - attempts[i].startedAt <= AttemptTimeout(req.timeout)
             /\ attempts[i].reported \notin LateRecords
    /\ (Done /\ TheResult.success /\ ~TheResult.cached) =>
          /\ Retrieved
          /\ TheResult.source = attempts[Len(attempts)].reported
          /\ TheResult.source \notin LateRecords
    /\ (Done /\ ~Retrieved) => store = RowsAtLookup
    /\ \A r \in store \ RowsAtLookup : r.source \notin LateRecords

C28_Witness ==
    /\ Done
    /\ TheResult.success
    /\ wrote
    /\ LateRecords = {"PitchBook"}
    /\ ~InFlight("web", now)
    /\ TheResult.source = "SerpAPI"

\* the targets a call of the web-scrape adapter requests, in order
Tried(p) ==
    { i \in 1..Len(ScrapeTargets) :
         /\ ~(ScrapeTargets[i] = "Company Website" /\ p.domain = <<>>)
         /\ \A j \in 1..(i - 1) :
               (ScrapeTargets[j] = "Company Website" /\ p.domain = <<>>)
               \/ p.script[j] # "record" }

\* C29: the web-scrape adapter requests Crunchbase, the company home page,
\* LinkedIn and PitchBook in this order, each at most once and the home page
\* only with a domain; an answer that is not a page with a record (non-2xx,
\* network error, no field) moves on to the next target; the call returns
\* the record of the first target that has one, under that target's name,
\* null when none has, and never raises.
C29_TargetsInOrder ==
    pending.source = "web" =>
       /\ ScrapeTargets = <<"Crunchbase", "Company Website", "LinkedIn", "PitchBook">>
       /\ pending.ret.kind \in {"record", "null"}
       /\ pending.ret.fetches = Cardinality(Tried(pending))
       /\ pending.ret.fetches <= Len(ScrapeTargets)
       /\ pending.domain = <<>> => 2 \notin Tried(pending)
       /\ \A i \in Tried(pending) :
             pending.script[i] = "record" =>
                /\ pending.ret.kind = "record"
                /\ pending.ret.source = ScrapeTargets[i]
                /\ pending.ret.financialData # {}
                /\ \A j \in Tried(pending) : j <= i
       /\ (\A i \in Tried(pending) : pending.script[i] # "record") =>
             pending.ret = NullReturn(Cardinality(Tried(pending)), 0)

C29_Witness ==
    /\ pending.source = "web"
    /\ pending.domain = <<>>
    /\ pending.script = <<"404", "record", "neterr", "record">>
    /\ pending.ret.source = "PitchBook"
    /\ pending.ret.fetches = 3

\* C30 as stated: the search-engine-results adapter issues at most five
\* queries, none after the first that yields a record, and a delay of one
\* second elapses between every two consecutive queries, whether the earlier
\* one returned nothing or failed.
C30_DelayBetweenQueries ==
    (pending.source = "serp" /\ apiKey["serp"]) =>
       /\ pending.ret.fetches <= 5
       /\ \A i \in 1..Len(pending.script) :
             (/\ pending.script[i] = "200-data"
              /\ \A j \in 1..(i - 1) : pending.script[j] # "200-data")
             => pending.ret.fetches = i
       /\ pending.ret.delays >= pending.ret.fetches - 1
       /\ pending.duration >= (pending.ret.fetches - 1) * 1000

\* new URL(input.startsWith("http") ? input : "https://" + input) throws:
\* after the scheme the input has no host, or a space or a second scheme in
\* the host
Unparseable(input) ==
    LET rest == StripScheme(input)
        host == FirstPart(rest, "/")
    IN  \/ host = <<>>
        \/ \E i \in 1..Len(host) : host[i] \in ({" "} \cup Schemes)

\* d is s without a leading scheme and a leading "www.", cut before the
\* first "/"
IsRawDomain(d, s) ==
    \E p \in {<<>>, <<"https://">>, <<"http://">>, <<"www.">>,
               <<"https://", "www.">>, <<"http://", "www.">>} :
       /\ Len(p \o d) <= Len(s)
       /\ SubSeq(s, 1, Len(p \o d)) = p \o d
       /\ Len(p \o d) < Len(s) => s[Len(p \o d) + 1] = "/"
       /\ \A i \in 1..Len(d) : d[i] # "/"
       /\ d # <<>> => d[1] \notin (Schemes \cup {"www."})
       /\ d = <<>> /\ Len(p) < Len(s) => s[Len(p) + 1] \notin (Schemes \cup {"www."})

\* C22, amended: classification yields a (company name, domain) pair of
\* strings for every input; for an input that does not parse as a URL,
\* getFinancialData keeps the whole input as the company name and leaves
\* the domain empty, and extractDomain called with it returns the input
\* without a leading scheme and a leading "www.", cut before the first "/".
C22_ClassificationTotal ==
    probe.op = "classify" =>
       /\ probe.companyName \in Seq(Alphabet \cup {"acme"})
       /\ probe.domain \in Seq(Alphabet \cup {"acme"})
       /\ probe.extractDomain \in Seq(Alphabet \cup {"acme"})
       /\ probe.extractCompanyNameFromUrl \in Seq(Alphabet \cup {"acme"})
       /\ Unparseable(probe.input) =>
             /\ ~probe.isUrl
             /\ probe.companyName = probe.input
             /\ probe.domain = <<>>
             /\ IsRawDomain(probe.extractDomain, probe.input)

C22_Witness ==
    /\ probe.op = "classify"
    /\ probe.input = <<"https://", " ", "Acme">>
    /\ probe.companyName = probe.input
    /\ probe.domain = <<>>
    /\ probe.extractDomain = <<" ", "Acme">>

\* C22 as stated: an unparseable input is used whole as the company name and
\* as the raw domain string.
C22_WholeInputAsDomain ==
    (probe.op = "classify" /\ Unparseable(probe.input)) =>
       /\ probe.companyName = probe.input
       /\ probe.domain = probe.input \/ probe.extractDomain = probe.input

\* C24 as stated: for a size "min-max" (and no employee count in the
\* record) employeeCount is "{m} ({min}-{max})" where m is the midpoint
\* rounded to the nearest integer, and "51-200" gives "125 (51-200)".
C24_Example125 ==
    (/\ probe.op = "employees"
     /\ probe.data.employee_count = 0
     /\ probe.data.estimated_num_employees = 0
     /\ IsRange(probe.data.size))
    => LET min == probe.data.size[1]
           max == probe.data.size[3]
           m == probe.employeeCount[1]
       IN  /\ probe.employeeCount = <<m, " (", min, "-", max, ")">>
           /\ 2 * m - (min + max) \in {-1, 0, 1}
           /\ (min = 51 /\ max = 200) => m = 125

\* the mentions of the text that some pattern of the list matches
Matched(patterns, text) ==
    { i \in 1..Len(text) : \E k \in 1..Len(patterns) : Covers(patterns[k], text[i].phrase) }

\* the pattern of highest priority that matches somewhere in the text
Winner(patterns, text) ==
    CHOOSE k \in 1..Len(patterns) :
       /\ \E i \in 1..Len(text) : Covers(patterns[k], text[i].phrase)
       /\ \A l \in 1..(k - 1) : \A i \in 1..Len(text) : ~Covers(patterns[l], text[i].phrase)

\* the amount a first-match-wins field takes from the text
Winning(patterns, text) ==
    LET k == Winner(patterns, text)
        i == CHOOSE i \in 1..Len(text) :
                /\ Covers(patterns[k], text[i].phrase)
                /\ \A j \in 1..(i - 1) : ~Covers(patterns[k], text[j].phrase)
    IN  text[i].amount

\* the single-valued fields and the funding fields depend on the mentions
\* of their own patterns only
OwnMentions(patterns, text) ==
    SelectSeq(text, LAMBDA m : \E k \in 1..Len(patterns) : Covers(patterns[k], m.phrase))

FirstMatchWins(d, text) ==
    /\ d.revenue = IF Matched(revenuePatterns, text) = {} THEN <<>>
                   ELSE <<"$", Winning(revenuePatterns, text), "M">>
    /\ d.growth_rate = IF Matched(growthPatterns, text) = {} THEN <<>>
                       ELSE <<Winning(growthPatterns, text), "%">>
    /\ d.arr_mrr = <<>> /\ d.valuation = <<>> /\ d.burn_rate = <<>> /\ d.runway = <<>>

C25_WitnessFunding ==
    /\ probe.op = "text"
    /\ probe.text = << [phrase |-> "pre-seed", amount |-> "1"],
                       [phrase |-> "raised", amount |-> "2"] >>
    /\ probe.out.financialData.funding_rounds =
          << <<"$", "2", "M">>, <<"$", "1", "M">>, <<"$", "1", "M">> >>

OwnRows ==
    { r \in store : /\ r.company_name = probe.name
                    /\ r.domain = probe.domain
                    /\ r.created_at >= now - TTL }

\* C21 as stated: after writes for a (name, domain), a read for it within
\* 24 hours returns the record and the source of the most recent of these
\* writes.
C21_RoundTrip ==
    (probe.op = "get" /\ OwnRows # {}) =>
       \E r \in Latest(OwnRows) :
          \E hit \in probe.out :
             /\ hit.financialData = r.financial_data
             /\ hit.source = r.source
             /\ hit.retrievalTimestamp = r.created_at

\* C27 as stated: the entry a read returns was written for a company whose
\* name is the requested name or whose domain is the requested, non-empty
\* domain.
C27_OnlyRequestedCompany ==
    probe.op = "get" =>
       \A hit \in probe.out :
          \/ hit.companyName = probe.name
          \/ probe.domain # <<>> /\ hit.domain = probe.domain

====
